---- MODULE Spec2Model ----
(***************************************************************************)
(* Model of src/app.py: the spreadsheet pipeline of the Novoxis analysis   *)
(* dashboard.  A table (pandas DataFrame) is a record                      *)
(*     [columns : sequence of column names,                                *)
(*      dtypes  : column name -> "int64" | "float64" | "object",           *)
(*      rows    : sequence of [column name -> cell]].                      *)
(* Every cell is a record [n, d, s].  A number is the exact rational n/d   *)
(* with d > 0 and s = <<>>; NaN (a missing cell) is [0, 0, <<>>]; a text   *)
(* cell has d = 0 and its characters in s, a sequence of one-character     *)
(* strings.  Floating point rounding is not modelled: sums and quotients   *)
(* are exact.                                                              *)
(***************************************************************************)
EXTENDS Integers, Sequences, FiniteSets, TLC

(* ------------------------------ bounds --------------------------------- *)
MaxRows == 3          \* rows of a packet table in the bucketing inputs
MaxAmountLen == 2     \* characters of an exhaustively enumerated Amount cell
MaxFiles == 3         \* files (or links) of one batch
MaxClicks == 3        \* sidebar button clicks of one session

(* --------------------------- exact numbers ----------------------------- *)
NaN == [n |-> 0, d |-> 0, s |-> <<>>]

IsNaN(x) == x.d = 0 /\ x.s = <<>>

Text(chars) == [n |-> 0, d |-> 0, s |-> chars]

Abs(k) == IF k < 0 THEN -k ELSE k

RECURSIVE GCD(_, _)
GCD(a, b) == IF b = 0 THEN a ELSE GCD(b, a % b)

Norm(n, d) ==
    LET g == GCD(Abs(n), d)
    IN  [n |-> n \div g, d |-> d \div g, s |-> <<>>]

Num(k) == [n |-> k, d |-> 1, s |-> <<>>]

RAdd(a, b) == Norm(a.n * b.d + b.n * a.d, a.d * b.d)

RDivInt(a, k) == Norm(a.n, a.d * k)

RLess(a, b) == a.n * b.d < b.n * a.d

RECURSIVE Pow10(_)
Pow10(k) == IF k = 0 THEN 1 ELSE 10 * Pow10(k - 1)

(* ----------------------- sequences and dicts --------------------------- *)
Range(s) == {s[k] : k \in DOMAIN s}

RECURSIVE SelectIdx(_, _, _)
\* the indices k of s, in order, whose element satisfies keep
SelectIdx(s, keep(_), k) ==
    IF k > Len(s) THEN <<>>
    ELSE (IF keep(s[k]) THEN <<k>> ELSE <<>>) \o SelectIdx(s, keep, k + 1)

\* A Python dict is a sequence of <<key, value>> entries in insertion order.
DictKeys(dct) == [k \in DOMAIN dct |-> dct[k][1]]

DictHas(dct, key) == \E k \in DOMAIN dct : dct[k][1] = key

DictGet(dct, key) == dct[CHOOSE k \in DOMAIN dct : dct[k][1] = key][2]

\* dct[key] = value: an existing key keeps its position
DictSet(dct, key, value) ==
    IF DictHas(dct, key)
    THEN [k \in DOMAIN dct |-> IF dct[k][1] = key THEN <<key, value>> ELSE dct[k]]
    ELSE Append(dct, <<key, value>>)

(* ------------------------------ tables --------------------------------- *)
HasColumn(df, col) == col \in Range(df.columns)

\* df[col] = values: a new column is appended, an existing one overwritten
SetColumn(df, col, dtype, values) ==
    [columns |-> IF HasColumn(df, col) THEN df.columns ELSE Append(df.columns, col),
     dtypes  |-> [c \in DOMAIN df.dtypes \cup {col} |->
                     IF c = col THEN dtype ELSE df.dtypes[c]],
     rows    |-> [r \in DOMAIN df.rows |->
                     [c \in DOMAIN df.dtypes \cup {col} |->
                         IF c = col THEN values[r] ELSE df.rows[r][c]]]]

\* df.select_dtypes(include=['float64', 'int64']).columns
NumericCols(df) ==
    LET idx == SelectIdx(df.columns,
                         LAMBDA c : df.dtypes[c] \in {"float64", "int64"}, 1)
    IN  [k \in DOMAIN idx |-> df.columns[idx[k]]]

\* .drop(cols, errors='ignore') on a sequence of column names
DropCols(cols, drop) ==
    LET idx == SelectIdx(cols, LAMBDA c : c \notin drop, 1)
    IN  [k \in DOMAIN idx |-> cols[idx[k]]]

RECURSIVE SumSkipNa(_)
\* pandas sum with skipna: NaN cells are left out, the empty sum is 0
SumSkipNa(cells) ==
    IF cells = <<>> THEN Num(0)
    ELSE IF IsNaN(Head(cells)) THEN SumSkipNa(Tail(cells))
    ELSE RAdd(Head(cells), SumSkipNa(Tail(cells)))

\* pandas count / notna().sum()
CountNotNa(cells) == Cardinality({k \in DOMAIN cells : ~IsNaN(cells[k])})

\* pandas mean with skipna: NaN when no cell is left
MeanSkipNa(cells) ==
    IF CountNotNa(cells) = 0 THEN NaN
    ELSE RDivInt(SumSkipNa(cells), CountNotNa(cells))

\* the cells of one row under the given columns
RowCells(row, cols) == [k \in DOMAIN cols |-> row[cols[k]]]

\* the cells of one column
ColCells(df, col) == [r \in DOMAIN df.rows |-> df.rows[r][col]]

(* --------------------------- classification ---------------------------- *)
invoice_columns ==
    <<"Sr No", "Invoice No", "Account Holder Name", "Customer Name", "Amount">>

packet_columns == <<"Account", "A/C Holder Name", "State">>

\* the packet columns tested first
detect_file_type_packet_first(df) ==
    IF \A k \in DOMAIN packet_columns : HasColumn(df, packet_columns[k])
    THEN "packet"
    ELSE IF \A k \in DOMAIN invoice_columns : HasColumn(df, invoice_columns[k])
    THEN "invoice"
    ELSE "None"

detect_file_type(df) ==
    IF \A k \in DOMAIN invoice_columns : HasColumn(df, invoice_columns[k])
    THEN "invoice"
    ELSE IF \A k \in DOMAIN packet_columns : HasColumn(df, packet_columns[k])
    THEN "packet"
    ELSE "None"

(* -------------------------------- text --------------------------------- *)
Digits == <<"0", "1", "2", "3", "4", "5", "6", "7", "8", "9">>

\* the characters of the model's inputs, in code point order
\* ("Rs" stands for the one character U+20B9, the rupee sign)
CharOrder ==
    <<",", "-", ".", "/">> \o Digits \o <<"A", "B", "H", "K", "M", "N", "X", "Y", "a", "n", "Rs">>

Ord(c) == CHOOSE k \in DOMAIN CharOrder : CharOrder[k] = c

IsDigit(c) == c \in Range(Digits)

DigitVal(c) == (CHOOSE k \in DOMAIN Digits : Digits[k] = c) - 1

RECURSIVE TextLess(_, _)
\* Python's ordering of str: lexicographic by code point
TextLess(a, b) ==
    IF b = <<>> THEN FALSE
    ELSE IF a = <<>> THEN TRUE
    ELSE IF Head(a) # Head(b) THEN Ord(Head(a)) < Ord(Head(b))
    ELSE TextLess(Tail(a), Tail(b))

\* the order pandas sorts group keys in: numbers by value, text by code point
CellLess(a, b) ==
    IF a.d > 0 /\ b.d > 0 THEN RLess(a, b) ELSE TextLess(a.s, b.s)

RECURSIVE DecimalValue(_)
\* the natural number written by a sequence of digits
DecimalValue(ds) ==
    IF ds = <<>> THEN 0
    ELSE 10 * DecimalValue(SubSeq(ds, 1, Len(ds) - 1)) + DigitVal(ds[Len(ds)])

(* ---------------------------- normalization ---------------------------- *)
Report(level, text, about) == [level |-> level, text |-> text, about |-> about]

\* what a normalizer hands back: ok = FALSE stands for None; df is the
\* table object it was given, as the call leaves it
Outcome(ok, df, msgs) == [ok |-> ok, df |-> df, msgs |-> msgs]

\* df[numeric_cols].sum(axis=1)
RowSums(df, cols) == [r \in DOMAIN df.rows |-> SumSkipNa(RowCells(df.rows[r], cols))]

\* df[numeric_cols].mean(axis=1)
RowMeans(df, cols) == [r \in DOMAIN df.rows |-> MeanSkipNa(RowCells(df.rows[r], cols))]

process_packet_dataframe(df) ==
    IF ~(\A k \in DOMAIN packet_columns : HasColumn(df, packet_columns[k]))
    THEN Outcome(FALSE, df,
                 <<Report("error", "Missing required columns for packet data", "")>>)
    ELSE LET numeric_cols == NumericCols(df)
             withTotal == SetColumn(df, "Total", "float64", RowSums(df, numeric_cols))
             withAverage == SetColumn(withTotal, "Average", "float64",
                                      RowMeans(withTotal, numeric_cols))
         IN  IF Len(numeric_cols) > 0
             THEN Outcome(TRUE, withAverage, <<>>)
             ELSE Outcome(FALSE, df,
                          <<Report("warning", "No numeric columns found in the packet data", "")>>)

RECURSIVE NatToChars(_)
\* str() of a natural number
NatToChars(k) ==
    IF k < 10 THEN <<Digits[k + 1]>>
    ELSE NatToChars(k \div 10) \o <<Digits[(k % 10) + 1]>>

RECURSIVE PadZeros(_, _)
PadZeros(chars, width) ==
    IF Len(chars) >= width THEN chars ELSE PadZeros(<<"0">> \o chars, width)

\* repr() of a float below 1e16 with a terminating decimal expansion of at
\* most six places: "20.0", "20.5", "-0.25"
FloatToChars(x) ==
    LET f      == CHOOSE k \in 0..6 :
                     /\ Pow10(k) % x.d = 0
                     /\ \A j \in 0..(k - 1) : Pow10(j) % x.d # 0
        scaled == (Abs(x.n) * Pow10(f)) \div x.d
        whole  == NatToChars(scaled \div Pow10(f))
        places == IF f = 0 THEN <<"0">>
                  ELSE PadZeros(NatToChars(scaled % Pow10(f)), f)
    IN  (IF x.n < 0 THEN <<"-">> ELSE <<>>) \o whole \o <<".">> \o places

\* .astype(str) on one cell of a column of the given dtype: text is
\* unchanged, a missing cell reads "nan", a number reads as Python prints it
AsStr(cell, dtype) ==
    IF IsNaN(cell) THEN <<"n", "a", "n">>
    ELSE IF cell.d = 0 THEN cell.s
    ELSE IF dtype = "int64"
    THEN (IF cell.n < 0 THEN <<"-">> ELSE <<>>) \o NatToChars(Abs(cell.n))
    ELSE FloatToChars(cell)

\* the pattern [^\d.] in place of [^\d.-]: the sign is stripped too
StripNonNumeric_no_sign(chars) ==
    LET idx == SelectIdx(chars, LAMBDA c : IsDigit(c) \/ c = ".", 1)
    IN  [k \in DOMAIN idx |-> chars[idx[k]]]

\* .str.replace(r'[^\d.-]', '', regex=True) on one string
StripNonNumeric(chars) ==
    LET idx == SelectIdx(chars, LAMBDA c : IsDigit(c) \/ c \in {".", "-"}, 1)
    IN  [k \in DOMAIN idx |-> chars[idx[k]]]

\* pd.to_numeric(..., errors='coerce') on one string over digits, '.', '-'
ToNumeric(chars) ==
    LET neg    == chars # <<>> /\ Head(chars) = "-"
        body   == IF neg THEN Tail(chars) ELSE chars
        dots   == {k \in DOMAIN body : body[k] = "."}
        digIdx == SelectIdx(body, IsDigit, 1)
        digs   == [k \in DOMAIN digIdx |-> body[digIdx[k]]]
        frac   == IF dots = {} THEN 0
                  ELSE Len(body) - (CHOOSE k \in dots : TRUE)
        mag    == DecimalValue(digs)
    IN  IF Len(digs) = 0 \/ Cardinality(dots) > 1
           \/ Len(digs) + Cardinality(dots) # Len(body)
        THEN NaN
        ELSE Norm(IF neg THEN -mag ELSE mag, Pow10(frac))

ParseAmount(cell, dtype) == ToNumeric(StripNonNumeric(AsStr(cell, dtype)))

process_invoice_dataframe(df) ==
    IF ~(\A k \in DOMAIN invoice_columns : HasColumn(df, invoice_columns[k]))
    THEN Outcome(FALSE, df,
                 <<Report("error", "Missing required columns for invoice data", "")>>)
    ELSE Outcome(TRUE,
                 SetColumn(df, "Amount", "float64",
                           [r \in DOMAIN df.rows |-> ParseAmount(df.rows[r]["Amount"], df.dtypes["Amount"])]),
                 <<>>)

(* ----------------------------- aggregation ----------------------------- *)
RECURSIVE SortedKeys(_)
\* the cells of a set in ascending order
SortedKeys(S) ==
    IF S = {} THEN <<>>
    ELSE LET m == CHOOSE x \in S : \A y \in S \ {x} : CellLess(x, y)
         IN  <<m>> \o SortedKeys(S \ {m})

\* the cells of column val in the rows whose key cell is k, in row order
GroupCells(df, key, val, k) ==
    LET idx == SelectIdx(df.rows, LAMBDA row : row[key] = k, 1)
    IN  [j \in DOMAIN idx |-> df.rows[idx[j]][val]]

RECURSIVE AppearanceKeys(_)
AppearanceKeys(cells) ==
    IF cells = <<>> THEN <<>>
    ELSE LET rest == AppearanceKeys(Tail(cells))
             idx  == SelectIdx(rest, LAMBDA x : x # Head(cells), 1)
         IN  (IF IsNaN(Head(cells)) THEN <<>> ELSE <<Head(cells)>>)
                 \o [j \in DOMAIN idx |-> rest[idx[j]]]

\* groupby(key, sort=False): the keys in order of first appearance
GroupSum_unsorted(df, key, val) ==
    LET keys == AppearanceKeys(ColCells(df, key))
    IN  [j \in DOMAIN keys |-> <<keys[j], SumSkipNa(GroupCells(df, key, val, keys[j]))>>]

\* df.groupby(key)[val].sum(): one <<key, sum>> entry per distinct non-missing
\* key, keys ascending (groupby's default sort=True, dropna=True)
GroupSum(df, key, val) ==
    LET keys == SortedKeys({df.rows[r][key] : r \in DOMAIN df.rows} \ {NaN})
    IN  [j \in DOMAIN keys |-> <<keys[j], SumSkipNa(GroupCells(df, key, val, keys[j]))>>]

calculate_packet_statistics(df) ==
    LET numeric_df == DropCols(NumericCols(df), {"Total", "Average"})
    IN  [total_packets    |-> SumSkipNa([j \in DOMAIN numeric_df |->
                                  SumSkipNa(ColCells(df, numeric_df[j]))]),
         monthly_averages |-> [j \in DOMAIN numeric_df |->
                                  <<numeric_df[j], MeanSkipNa(ColCells(df, numeric_df[j]))>>],
         account_totals   |-> RowSums(df, numeric_df),
         active_months    |-> [r \in DOMAIN df.rows |->
                                  CountNotNa(RowCells(df.rows[r], numeric_df))]]

\* account_data['Percentage'] < 2 for one group: (Total / total_pieces) * 100
\* in float arithmetic, where x/0 is NaN, +inf or -inf and NaN < 2 is False
others_mask(total, total_pieces) ==
    IF total_pieces.n = 0 THEN total.n < 0
    ELSE IF total_pieces.n > 0
    THEN 100 * total.n * total_pieces.d < 2 * total_pieces.n * total.d
    ELSE 100 * total.n * total_pieces.d > 2 * total_pieces.n * total.d

Others == Text(<<"O", "t", "h", "e", "r", "s">>)

\* the account distribution of create_packet_visualizations: the <<Account,
\* Total>> rows of pie_data
account_pie_data(df) ==
    LET total_pieces == SumSkipNa(ColCells(df, "Total"))
        account_data == GroupSum(df, "Account", "Total")
        minor  == SelectIdx(account_data,
                            LAMBDA e : others_mask(e[2], total_pieces), 1)
        major  == SelectIdx(account_data,
                            LAMBDA e : ~others_mask(e[2], total_pieces), 1)
        others_sum == SumSkipNa([j \in DOMAIN minor |-> account_data[minor[j]][2]])
        pie_data   == [j \in DOMAIN major |-> account_data[major[j]]]
    IN  IF others_sum.n > 0
        THEN Append(pie_data, <<Others, others_sum>>)
        ELSE pie_data

create_packet_visualizations(df) ==
    [account_pie |-> account_pie_data(df),
     state_pie   |-> GroupSum(df, "State", "Total")]

\* null amounts counted as zero in the mean
calculate_invoice_statistics_fillna(df) ==
    [total_amount    |-> SumSkipNa(ColCells(df, "Amount")),
     average_invoice |-> RDivInt(SumSkipNa(ColCells(df, "Amount")), Len(df.rows)),
     total_invoices  |-> Len(df.rows),
     unique_customers |->
         Cardinality({df.rows[r]["Customer Name"] : r \in DOMAIN df.rows} \ {NaN}),
     unique_account_holders |->
         Cardinality({df.rows[r]["Account Holder Name"] : r \in DOMAIN df.rows} \ {NaN})]

calculate_invoice_statistics(df) ==
    [total_amount    |-> SumSkipNa(ColCells(df, "Amount")),
     average_invoice |-> MeanSkipNa(ColCells(df, "Amount")),
     total_invoices  |-> Len(df.rows),
     unique_customers |->
         Cardinality({df.rows[r]["Customer Name"] : r \in DOMAIN df.rows} \ {NaN}),
     unique_account_holders |->
         Cardinality({df.rows[r]["Account Holder Name"] : r \in DOMAIN df.rows} \ {NaN})]

(* ------------------------- invoice month rollup ------------------------ *)
IsLeap(y) == y % 4 = 0 /\ (y % 100 # 0 \/ y % 400 = 0)

DaysIn(m, y) ==
    IF m = 2 THEN (IF IsLeap(y) THEN 29 ELSE 28)
    ELSE IF m \in {4, 6, 9, 11} THEN 30 ELSE 31

\* pd.to_datetime(prefix, format='%y%m%d', errors='coerce').strftime('%Y-%m')
\* on one six-character prefix: text "YYYY-MM", or NaN when it is no date
MonthOf(prefix) ==
    IF Len(prefix) # 6 \/ \E k \in DOMAIN prefix : ~IsDigit(prefix[k])
    THEN NaN
    ELSE LET yy == DecimalValue(SubSeq(prefix, 1, 2))
             mm == DecimalValue(SubSeq(prefix, 3, 4))
             dd == DecimalValue(SubSeq(prefix, 5, 6))
             year == IF yy < 69 THEN 2000 + yy ELSE 1900 + yy
         IN  IF mm \in 1..12 /\ dd >= 1 /\ dd <= DaysIn(mm, year)
             THEN Text(NatToChars(year) \o <<"-">> \o SubSeq(prefix, 3, 4))
             ELSE NaN

\* df['Invoice No'].str[:6] on one cell
Prefix6(cell) ==
    IF IsNaN(cell) THEN <<>>
    ELSE SubSeq(cell.s, 1, IF Len(cell.s) < 6 THEN Len(cell.s) ELSE 6)

\* raised = TRUE: the .str accessor raised on a non-text Invoice No column,
\* after customer_totals was computed and before df was touched
create_invoice_visualizations(df) ==
    LET customer_totals == GroupSum(df, "Customer Name", "Amount")
        raised == df.dtypes["Invoice No"] # "object"
        withMonth == SetColumn(df, "Month", "object",
                         [r \in DOMAIN df.rows |->
                             MonthOf(Prefix6(df.rows[r]["Invoice No"]))])
    IN  IF raised
        THEN [raised |-> TRUE, df |-> df,
              customer_totals |-> customer_totals, monthly_totals |-> <<>>]
        ELSE [raised |-> FALSE, df |-> withMonth,
              customer_totals |-> customer_totals,
              monthly_totals |-> GroupSum(withMonth, "Month", "Amount")]

(* -------------------------- combined statistics ------------------------ *)
RECURSIVE SumLen(_)
SumLen(dct) == IF dct = <<>> THEN 0 ELSE Len(Head(dct)[2].rows) + SumLen(Tail(dct))

\* the mean taken over the per-table means
combined_invoice_metrics_mean_of_means(invoice_dataframes) ==
    [total_amount   |-> SumSkipNa([k \in DOMAIN invoice_dataframes |->
                            SumSkipNa(ColCells(invoice_dataframes[k][2], "Amount"))]),
     total_invoices |-> SumLen(invoice_dataframes),
     avg_amount     |-> MeanSkipNa([k \in DOMAIN invoice_dataframes |->
                            MeanSkipNa(ColCells(invoice_dataframes[k][2], "Amount"))])]

\* sum(df['Amount'].sum() for df in invoice_dataframes.values()),
\* sum(len(df) ...) and their quotient
combined_invoice_metrics(invoice_dataframes) ==
    LET total_amount == SumSkipNa([k \in DOMAIN invoice_dataframes |->
                            SumSkipNa(ColCells(invoice_dataframes[k][2], "Amount"))])
        total_invoices == SumLen(invoice_dataframes)
    IN  [total_amount   |-> total_amount,
         total_invoices |-> total_invoices,
         avg_amount     |-> RDivInt(total_amount, total_invoices)]

\* metrics are shown first; the (Source, Month) group-by then raises KeyError
\* unless some table of the concatenation carries a Month column
create_combined_invoice_dashboard(invoice_dataframes) ==
    [metrics |-> combined_invoice_metrics(invoice_dataframes),
     raised  |-> ~(\E k \in DOMAIN invoice_dataframes :
                      HasColumn(invoice_dataframes[k][2], "Month"))]

\* the per-table figure "Average Packets per Month": stats['monthly_averages'].mean()
avg_packets_per_month(df) ==
    LET avgs == calculate_packet_statistics(df).monthly_averages
    IN  MeanSkipNa([j \in DOMAIN avgs |-> avgs[j][2]])

\* create_combined_dashboard is called by main but defined nowhere in app.py;
\* its result follows the specification's combinedStats
create_combined_dashboard(packet_dataframes) ==
    [total_packets |-> SumSkipNa([k \in DOMAIN packet_dataframes |->
                           calculate_packet_statistics(packet_dataframes[k][2]).total_packets]),
     total_accounts |-> SumLen(packet_dataframes),
     avg_packets_per_month |-> MeanSkipNa([k \in DOMAIN packet_dataframes |->
                           avg_packets_per_month(packet_dataframes[k][2])])]

\* what the combined packet step leaves on the page: the specification lets
\* no failure of a step end the run, a failing step shows a message and is
\* skipped (as create_combined_invoice_dashboard does in its except)
combined_packet_outcome(packet_dataframes, fails) ==
    IF fails
    THEN [view |-> <<>>,
          msgs |-> <<Report("error", "Error in combined packet analysis", "")>>]
    ELSE [view |-> <<[kind |-> "packet",
                      metrics |-> create_combined_dashboard(packet_dataframes)]>>,
          msgs |-> <<>>]

(* -------------------------------- inputs ------------------------------- *)
\* pd.read_excel's dtype of a column of cells: text anywhere makes it
\* object, a missing cell or a fraction makes it float64, else int64
InferDtype(cells) ==
    IF \E k \in DOMAIN cells : cells[k].s # <<>> THEN "object"
    ELSE IF \E k \in DOMAIN cells : cells[k].d # 1 THEN "float64"
    ELSE "int64"

\* a table read from a sheet
Sheet(columns, rows) ==
    [columns |-> columns,
     dtypes  |-> [c \in Range(columns) |->
                     InferDtype([r \in DOMAIN rows |-> rows[r][c]])],
     rows    |-> rows]

\* sequences over S of length lo..hi
SeqsOf(S, lo, hi) == UNION {[1..k -> S] : k \in lo..hi}

StateOf(acct) == IF acct = 102 THEN Text(<<"K", "A">>) ELSE Text(<<"M", "H">>)

HolderOf(acct) == IF acct = 103 THEN Text(<<"A">>) ELSE Text(<<"B">>)

PacketRow1(account, jan, feb) ==
    [c \in {"Account", "A/C Holder Name", "State", "Jan", "Feb"} |->
        CASE c = "Account" -> account
          [] c = "A/C Holder Name" -> Text(<<"A">>)
          [] c = "State" -> Text(<<"M", "H">>)
          [] c = "Jan" -> jan
          [] OTHER -> feb]

MonthCells == {NaN, Num(10), Num(20)}

\* one-row packet sheets; the Account column is stored as a number or as text
PacketRowTables ==
    {Sheet(packet_columns \o <<"Jan", "Feb">>, <<PacketRow1(account, jan, feb)>>) :
        account \in {Num(101), Text(NatToChars(101))},
        jan \in MonthCells, feb \in MonthCells}

\* sheets that already carry Total and Average: the output of an earlier run
NormalizedSheets == {process_packet_dataframe(t).df : t \in PacketRowTables}

BucketRow(acct, jan) ==
    [c \in {"Account", "A/C Holder Name", "State", "Jan"} |->
        CASE c = "Account" -> Text(NatToChars(acct))
          [] c = "A/C Holder Name" -> HolderOf(acct)
          [] c = "State" -> StateOf(acct)
          [] OTHER -> Num(jan)]

\* a large, a middling and a small account: totals on both sides of the 2%
\* share, zero and negative ones
BucketRows ==
    {BucketRow(101, jan) : jan \in {0, 50}}
        \cup {BucketRow(102, jan) : jan \in {49, 50}}
        \cup {BucketRow(103, jan) : jan \in {-1, 0, 1}}

\* packet sheets with one month column and text accounts, for the rollups
BucketTables ==
    {Sheet(packet_columns \o <<"Jan">>, rows) :
        rows \in SeqsOf(BucketRows, 1, MaxRows)}

InvoiceRow(sr, no, customer, amount) ==
    [c \in Range(invoice_columns) |->
        CASE c = "Sr No" -> Num(sr)
          [] c = "Invoice No" -> no
          [] c = "Account Holder Name" -> Text(<<"H">>)
          [] c = "Customer Name" -> Text(<<customer>>)
          [] OTHER -> amount]

No240115 == Text(<<"2", "4", "0", "1", "1", "5", "-", "A">>)

No231201 == Text(<<"2", "3", "1", "2", "0", "1", "-", "B">>)

No240230 == Text(<<"2", "4", "0", "2", "3", "0", "-", "A">>)

RupeeAmount == Text(<<"Rs", "1", ",", "2", "0", "0", ".", "5", "0">>)

NotAvailable == Text(<<"N", "/", "A">>)

SiblingAmounts == {RupeeAmount, NotAvailable, NaN, Text(<<"1", "0">>)}

\* every Amount text of up to MaxAmountLen characters over a digit pair, the
\* two kept signs and a stripped character, and the siblings
AmountCells ==
    {Text(chars) : chars \in SeqsOf({"1", "5", ".", "-", ","}, 1, MaxAmountLen)}
        \cup SiblingAmounts

\* invoice sheets with a text Amount column: any first amount, and possibly
\* a second row
ParseTables ==
    {Sheet(invoice_columns, <<InvoiceRow(1, No240115, "Y", a)>>) : a \in AmountCells}
    \cup
    {Sheet(invoice_columns, <<InvoiceRow(1, No240115, "Y", a), InvoiceRow(2, no, c, b)>>) :
        a \in AmountCells, b \in SiblingAmounts, c \in {"X", "Y"},
        no \in {No231201, No240230}}

\* invoice sheets whose Amount column is numeric: [10] and [20.5, missing]
NumericInvoice1 ==
    Sheet(invoice_columns, <<InvoiceRow(1, No240115, "X", Num(10))>>)

NumericInvoice2 ==
    Sheet(invoice_columns, <<InvoiceRow(1, No240115, "X", Norm(41, 2)), InvoiceRow(2, No231201, "Y", NaN)>>)

\* an invoice sheet whose invoice numbers are numbers
NumberedInvoice ==
    Sheet(invoice_columns, <<InvoiceRow(1, Num(240115), "X", Text(<<"1", "0">>))>>)

\* text amounts 20, 20, N/A: mean 20 over three rows
Invoice20 ==
    Sheet(invoice_columns, <<InvoiceRow(1, No240115, "Y", Text(<<"2", "0">>)),
            InvoiceRow(2, No231201, "X", Text(<<"2", "0">>)),
            InvoiceRow(3, No231201, "X", NotAvailable)>>)

Packet10 ==
    Sheet(packet_columns \o <<"Jan", "Feb">>,
          <<PacketRow1(Text(NatToChars(101)), Num(10), NaN)>>)

Packet20 ==
    Sheet(packet_columns \o <<"Jan">>, <<BucketRow(103, 20), BucketRow(102, 20)>>)

\* a packet sheet without any numeric column
TextOnlyPacket ==
    Sheet(packet_columns,
          <<[c \in Range(packet_columns) |->
                IF c = "Account" THEN Text(NatToChars(101)) ELSE Text(<<"A">>)]>>)

\* a sheet of neither schema
UnknownSheet == Sheet(<<"Foo">>, <<[c \in {"Foo"} |-> Num(1)]>>)

\* a sheet whose columns hold both required sets
BothSchemas ==
    {Sheet(packet_columns \o invoice_columns \o <<"Jan">>,
          <<[c \in Range(packet_columns) \cup Range(invoice_columns) \cup {"Jan"} |->
                IF c \in Range(packet_columns) \cup {"Jan"}
                THEN BucketRow(101, 10)[c]
                ELSE InvoiceRow(1, No240115, "X", a)[c]]>>) :
        a \in SiblingAmounts}

\* an upload or a link: its name, whether reading it succeeds, whether it is
\* a Google Sheets link, and the sheet behind it
Source(name, readable, gsheet, df) ==
    [name |-> name, readable |-> readable, gsheet |-> gsheet, df |-> df]

SingleSheets ==
    PacketRowTables \cup NormalizedSheets \cup BucketTables \cup ParseTables
        \cup BothSchemas \cup {NumericInvoice2, NumberedInvoice, Packet20}

\* uploads: two files may carry the same name
UploadSources ==
    {Source(name, TRUE, FALSE, df) :
        name \in {"a.xlsx", "b.xlsx"},
        df \in {Packet10, Invoice20, UnknownSheet, TextOnlyPacket}}
    \cup {Source(name, FALSE, FALSE, UnknownSheet) : name \in {"a.xlsx", "b.xlsx"}}

\* links: the names are the distinct keys of stored_links
LinkNames == <<"a.xlsx", "b.xlsx", "c.xlsx", "d.xlsx", "e.xlsx", "f.xlsx">>

LinkSources ==
    {Source("", TRUE, FALSE, df) :
        df \in {Packet10, Packet20, NumericInvoice1, Invoice20, UnknownSheet}}
    \cup {Source("", FALSE, g, UnknownSheet) : g \in BOOLEAN}

Named(sources) == [k \in DOMAIN sources |-> [sources[k] EXCEPT !.name = LinkNames[k]]]

(* ------------------------------ the sidebar ---------------------------- *)
\* what the two text inputs may hold; "" is an input left empty
LinkNameInputs == {"", "n1", "n2"}
NewLinkInputs == {"", "u1", "u2"}

\* how a request ends: the status code of the response, or "raised" when
\* requests raises instead of returning one
Responses == {"200", "500", "raised"}

\* the API's list of links as a new session may find it
ServerLists == {<<>>, <<[name |-> "n1", url |-> "u1"]>>}

RECURSIVE links_to_dict(_)
\* {link['name']: link['url'] for link in links}
links_to_dict(links) ==
    IF links = <<>> THEN <<>>
    ELSE LET link == links[Len(links)]
         IN  DictSet(links_to_dict(SubSeq(links, 1, Len(links) - 1)), link.name, link.url)

\* the session's first run: stored_links is what the API lists, or {}
initialize_links(server, get) ==
    [stored_links |-> IF get = "200" THEN links_to_dict(server) ELSE <<>>,
     msgs |-> IF get = "raised"
              THEN <<Report("error", "Error initializing links", "")>>
              ELSE <<>>]

\* the Add Link handler: post is how the POST ends and get how the GET
\* after it ends; a POST answered 200 has put the link on the API's list
add_link(stored, server, name, url, post, get) ==
    LET saved == Append(server, [name |-> name, url |-> url])
    IN  IF post = "raised"
        THEN [stored_links |-> stored, server_links |-> server,
              msgs |-> <<Report("error", "Error saving link", name)>>]
        ELSE IF post # "200"
        THEN [stored_links |-> stored, server_links |-> server,
              msgs |-> <<Report("error", "Failed to save link", name)>>]
        ELSE IF get = "raised"
        THEN [stored_links |-> stored, server_links |-> saved,
              msgs |-> <<Report("error", "Error saving link", name)>>]
        ELSE [stored_links |-> IF get = "200" THEN links_to_dict(saved) ELSE stored,
              server_links |-> saved,
              msgs |-> <<Report("success", "Added link", name)>>]

\* the Refresh Links handler
refresh_links(stored, server, get) ==
    IF get = "raised"
    THEN [stored_links |-> stored,
          msgs |-> <<Report("error", "Error refreshing links", "")>>]
    ELSE IF get # "200"
    THEN [stored_links |-> stored,
          msgs |-> <<Report("error", "Failed to refresh links", "")>>]
    ELSE [stored_links |-> links_to_dict(server),
          msgs |-> <<Report("success", "Links refreshed successfully", "")>>]

(* ----------------------------- the program ----------------------------- *)
VARIABLES
    tab,                \* which tab's flow of main runs: "upload" or "links"
    files,              \* uploaded_files, or the selected links, in order
    file_type_filter,   \* the links tab's "Filter by File Type" selection
    pc,                 \* the position in main
    i,                  \* the loop index over files
    dataframes,         \* [packet |-> dict, invoice |-> dict], name -> table
    reports,            \* what st.error and st.warning have shown, in order
    packet_view,        \* <<>> or <<what analyze_packet_data displayed>>
    invoice_view,       \* <<>> or <<what analyze_invoice_data displayed>>
    combined_view,      \* <<>> or <<what a combined dashboard displayed>>
    last_call,          \* <<>> or <<the last call that was handed a table: the
                        \* function, the table before the call and the same
                        \* object once the call is over>>
    initialized,        \* st.session_state.initialized is set
    stored_links,       \* st.session_state.stored_links, a dict name -> url
    server_links,       \* the list of links behind API_BASE_URL
    link_name,          \* the "Give this link a name" input at the last click
    new_link,           \* the "Add new Excel/Google Sheet link" input then
    sidebar,            \* the messages the last sidebar step has shown
    clicks              \* the button clicks so far

page_vars == <<tab, files, file_type_filter, pc, i, dataframes, reports,
               packet_view, invoice_view, combined_view, last_call>>

sidebar_vars == <<initialized, stored_links, server_links, link_name, new_link,
                  sidebar, clicks>>

vars == <<page_vars, sidebar_vars>>

\* the links the Saved Links tab offers: each selected name is a key of
\* stored_links (its URL is written as the name)
LinksOf(sources) == [k \in DOMAIN sources |-> <<sources[k].name, sources[k].name>>]

Init ==
    /\ \/ /\ tab = "upload"
          /\ files \in {<<Source("a.xlsx", TRUE, FALSE, df)>> : df \in SingleSheets}
                          \cup SeqsOf(UploadSources, 1, MaxFiles)
          /\ file_type_filter = {"Packet Data", "Invoice Data"}
       \/ /\ tab = "links"
          /\ files \in {Named(ss) : ss \in SeqsOf(LinkSources, 1, MaxFiles)}
          /\ file_type_filter \in {{"Packet Data", "Invoice Data"}, {"Invoice Data"}}
    /\ pc = "load"
    /\ i = 1
    /\ dataframes = [packet |-> <<>>, invoice |-> <<>>]
    /\ reports = <<>>
    /\ packet_view = <<>>
    /\ invoice_view = <<>>
    /\ combined_view = <<>>
    /\ last_call = <<>>
    /\ initialized = TRUE
    /\ stored_links = IF tab = "links" THEN LinksOf(files) ELSE <<>>
    /\ server_links = [k \in DOMAIN stored_links |->
                          [name |-> stored_links[k][1], url |-> stored_links[k][2]]]
    /\ link_name = ""
    /\ new_link = ""
    /\ sidebar = <<>>
    /\ clicks = 0

\* the invoice section as an elif of the packet section
AfterPacket_elif(t, dfs) ==
    IF dfs.invoice = <<>> \/ dfs.packet # <<>> THEN "done"
    ELSE IF t = "links" /\ Len(dfs.invoice) > 1 THEN "combined_invoice"
    ELSE "invoice_analysis"

\* where main goes once the packet section is over
AfterPacket(t, dfs) ==
    IF dfs.invoice = <<>> THEN "done"
    ELSE IF t = "links" /\ Len(dfs.invoice) > 1 THEN "combined_invoice"
    ELSE "invoice_analysis"

\* where main goes once the tables are loaded
AfterLoad(t, dfs) ==
    IF dfs.packet = <<>> THEN AfterPacket(t, dfs)
    ELSE IF Len(dfs.packet) > 1 THEN "combined_packet"
    ELSE "packet_analysis"

\* the try/except around the whole loop: a failing file ends the loading
load_file_abort(dfs, file) ==
    IF ~file.readable
    THEN [dataframes |-> dfs, stop |-> TRUE,
          msgs |-> <<Report("error", "Error processing", file.name)>>]
    ELSE LET file_type == detect_file_type(file.df)
             out == IF file_type = "packet" THEN process_packet_dataframe(file.df)
                    ELSE process_invoice_dataframe(file.df)
         IN  IF file_type = "None"
             THEN [dataframes |-> dfs, stop |-> TRUE,
                   msgs |-> <<Report("error", "Unrecognized file format for", file.name)>>]
             ELSE [dataframes |->
                       IF out.ok
                       THEN [dfs EXCEPT ![file_type] = DictSet(@, file.name, out.df)]
                       ELSE dfs,
                   stop |-> ~out.ok,
                   msgs |-> out.msgs]

\* an unrecognized sheet is passed over without a word
load_file_silent(dfs, file) ==
    IF ~file.readable
    THEN [dataframes |-> dfs, stop |-> FALSE,
          msgs |-> <<Report("error", "Error processing", file.name)>>]
    ELSE LET file_type == detect_file_type(file.df)
             out == IF file_type = "packet" THEN process_packet_dataframe(file.df)
                    ELSE process_invoice_dataframe(file.df)
         IN  IF file_type = "None"
             THEN [dataframes |-> dfs, stop |-> FALSE, msgs |-> <<>>]
             ELSE [dataframes |->
                       IF out.ok
                       THEN [dfs EXCEPT ![file_type] = DictSet(@, file.name, out.df)]
                       ELSE dfs,
                   stop |-> FALSE,
                   msgs |-> out.msgs]

\* one iteration of load_and_clean_data's loop on file: the tables and the
\* reports after it; stop = FALSE because the try/except is inside the loop
load_file(dfs, file) ==
    IF ~file.readable
    THEN [dataframes |-> dfs, stop |-> FALSE,
          msgs |-> <<Report("error", "Error processing", file.name)>>]
    ELSE LET file_type == detect_file_type(file.df)
             out == IF file_type = "packet" THEN process_packet_dataframe(file.df)
                    ELSE process_invoice_dataframe(file.df)
         IN  IF file_type = "None"
             THEN [dataframes |-> dfs, stop |-> FALSE,
                   msgs |-> <<Report("error", "Unrecognized file format for", file.name)>>]
             ELSE [dataframes |->
                       IF out.ok
                       THEN [dfs EXCEPT ![file_type] = DictSet(@, file.name, out.df)]
                       ELSE dfs,
                   stop |-> FALSE,
                   msgs |-> out.msgs]

\* load_from_link: a failed Google Sheets read is reported by
\* load_google_sheet, which returns None, and detect_file_type(None) then
\* raises into load_from_link's own except
load_from_link(link) ==
    IF ~link.readable
    THEN Outcome(FALSE, link.df,
             (IF link.gsheet
              THEN <<Report("error", "Error loading data from Google Sheets", "")>>
              ELSE <<>>)
             \o <<Report("error", "Error loading data from link", "")>>)
    ELSE LET file_type == detect_file_type(link.df)
         IN  IF file_type = "packet" THEN process_packet_dataframe(link.df)
             ELSE IF file_type = "invoice" THEN process_invoice_dataframe(link.df)
             ELSE Outcome(FALSE, link.df,
                      <<Report("error", "Unrecognized file format in the linked file", "")>>)

\* the links tab's loop body: load, classify again, apply the type filter
load_link(dfs, link, filter) ==
    LET out == load_from_link(link)
        file_type == detect_file_type(out.df)
    IN  IF ~out.ok THEN dfs
        ELSE IF file_type = "packet" /\ "Packet Data" \in filter
        THEN [dfs EXCEPT !.packet = DictSet(@, link.name, out.df)]
        ELSE IF file_type = "invoice" /\ "Invoice Data" \in filter
        THEN [dfs EXCEPT !.invoice = DictSet(@, link.name, out.df)]
        ELSE dfs

\* the normalizer call of one loop iteration, if it makes one: df is the
\* caller's local, bound to the table just read, and the normalizers assign
\* their columns on that object
normalizer_call(calls, file) ==
    LET file_type == detect_file_type(file.df)
    IN  IF ~file.readable \/ file_type = "None" THEN calls
        ELSE IF file_type = "packet"
        THEN <<[fn |-> "process_packet_dataframe", before |-> file.df,
                after |-> process_packet_dataframe(file.df).df]>>
        ELSE <<[fn |-> "process_invoice_dataframe", before |-> file.df,
                after |-> process_invoice_dataframe(file.df).df]>>

LoadFile ==
    /\ pc = "load" /\ tab = "upload"
    /\ LET step == load_file(dataframes, files[i])
           last == i = Len(files) \/ step.stop
       IN  /\ dataframes' = step.dataframes
           /\ reports' = reports \o step.msgs
           /\ i' = i + 1
           /\ pc' = IF last THEN AfterLoad(tab, step.dataframes) ELSE "load"
    /\ last_call' = normalizer_call(last_call, files[i])
    /\ UNCHANGED <<tab, files, file_type_filter, packet_view, invoice_view, combined_view>>
    /\ UNCHANGED sidebar_vars

LoadLink ==
    /\ pc = "load" /\ tab = "links"
    /\ LET dfs == load_link(dataframes, files[i], file_type_filter)
       IN  /\ dataframes' = dfs
           /\ reports' = reports \o load_from_link(files[i]).msgs
           /\ i' = i + 1
           /\ pc' = IF i = Len(files) THEN AfterLoad(tab, dfs) ELSE "load"
    /\ last_call' = normalizer_call(last_call, files[i])
    /\ UNCHANGED <<tab, files, file_type_filter, packet_view, invoice_view, combined_view>>
    /\ UNCHANGED sidebar_vars

\* the combined packet step, which may fail; main goes on to the individual
\* analysis
CombinedPacket ==
    /\ pc = "combined_packet"
    /\ \E fails \in BOOLEAN :
          LET shown == combined_packet_outcome(dataframes.packet, fails)
          IN  /\ combined_view' = shown.view
              /\ reports' = reports \o shown.msgs
    /\ pc' = "packet_analysis"
    /\ UNCHANGED <<tab, files, file_type_filter, i, dataframes,
                   packet_view, invoice_view, last_call>>
    /\ UNCHANGED sidebar_vars

\* analyze_packet_data on the file the select box holds
AnalyzePacket ==
    /\ pc = "packet_analysis"
    /\ \E k \in DOMAIN dataframes.packet :
          LET selected_file == dataframes.packet[k][1]
              df == dataframes.packet[k][2]
          IN  packet_view' = <<[selected_file |-> selected_file,
                                stats  |-> calculate_packet_statistics(df),
                                charts |-> create_packet_visualizations(df)]>>
    /\ pc' = AfterPacket(tab, dataframes)
    /\ UNCHANGED <<tab, files, file_type_filter, i, dataframes, reports,
                   invoice_view, combined_view, last_call>>
    /\ UNCHANGED sidebar_vars

CombinedInvoice ==
    /\ pc = "combined_invoice"
    /\ LET shown == create_combined_invoice_dashboard(dataframes.invoice)
       IN  /\ combined_view' = Append(combined_view,
                                      [kind |-> "invoice", metrics |-> shown.metrics])
           /\ reports' = IF shown.raised
                         THEN Append(reports,
                                  Report("error", "Error in combined invoice analysis", "Month"))
                         ELSE reports
    /\ pc' = "invoice_analysis"
    /\ UNCHANGED <<tab, files, file_type_filter, i, dataframes,
                   packet_view, invoice_view, last_call>>
    /\ UNCHANGED sidebar_vars

\* analyze_invoice_data on the file the select box holds; the table in
\* dataframes is the object create_invoice_visualizations adds Month to
AnalyzeInvoice ==
    /\ pc = "invoice_analysis"
    /\ \E k \in DOMAIN dataframes.invoice :
          LET selected_file == dataframes.invoice[k][1]
              df == dataframes.invoice[k][2]
              charts == create_invoice_visualizations(df)
          IN  /\ invoice_view' = <<[selected_file |-> selected_file,
                                    stats |-> calculate_invoice_statistics(df),
                                    raised |-> charts.raised,
                                    customer_totals |-> charts.customer_totals,
                                    monthly_totals |-> charts.monthly_totals]>>
              /\ dataframes' = [dataframes EXCEPT !.invoice[k][2] = charts.df]
              /\ last_call' = <<[fn |-> "create_invoice_visualizations",
                                 before |-> df, after |-> charts.df]>>
              /\ reports' = IF charts.raised
                            THEN Append(reports,
                                     Report("error", "Error in invoice analysis", ""))
                            ELSE reports
    /\ pc' = "done"
    /\ UNCHANGED <<tab, files, file_type_filter, i, packet_view, combined_view>>
    /\ UNCHANGED sidebar_vars

\* the first run of a session
InitializeSession ==
    /\ ~initialized
    /\ \E get \in Responses :
          LET first == initialize_links(server_links, get)
          IN  /\ stored_links' = first.stored_links
              /\ sidebar' = first.msgs
    /\ initialized' = TRUE
    /\ UNCHANGED <<server_links, link_name, new_link, clicks>>
    /\ UNCHANGED page_vars

\* a click on Add Link with both inputs filled in
AddLink ==
    /\ initialized /\ clicks < MaxClicks
    /\ \E name \in LinkNameInputs \ {""}, url \in NewLinkInputs \ {""},
          post \in Responses, get \in Responses :
          LET step == add_link(stored_links, server_links, name, url, post, get)
          IN  /\ link_name' = name
              /\ new_link' = url
              /\ stored_links' = step.stored_links
              /\ server_links' = step.server_links
              /\ sidebar' = step.msgs
    /\ clicks' = clicks + 1
    /\ UNCHANGED initialized
    /\ UNCHANGED page_vars

\* a click on Refresh Links
RefreshLinks ==
    /\ initialized /\ clicks < MaxClicks
    /\ \E get \in Responses :
          LET step == refresh_links(stored_links, server_links, get)
          IN  /\ stored_links' = step.stored_links
              /\ sidebar' = step.msgs
    /\ clicks' = clicks + 1
    /\ UNCHANGED <<initialized, server_links, link_name, new_link>>
    /\ UNCHANGED page_vars

\* a new session with nothing uploaded and no link selected
SidebarInit ==
    /\ tab = "upload" /\ files = <<>>
    /\ file_type_filter = {"Packet Data", "Invoice Data"}
    /\ pc = "done" /\ i = 1
    /\ dataframes = [packet |-> <<>>, invoice |-> <<>>]
    /\ reports = <<>> /\ packet_view = <<>> /\ invoice_view = <<>>
    /\ combined_view = <<>> /\ last_call = <<>>
    /\ initialized = FALSE
    /\ stored_links = <<>>
    /\ server_links \in ServerLists
    /\ link_name = "" /\ new_link = ""
    /\ sidebar = <<>>
    /\ clicks = 0

SidebarNext ==
    \/ InitializeSession
    \/ AddLink
    \/ RefreshLinks

SidebarSpec == SidebarInit /\ [][SidebarNext]_vars

Next ==
    \/ LoadFile
    \/ LoadLink
    \/ CombinedPacket
    \/ AnalyzePacket
    \/ CombinedInvoice
    \/ AnalyzeInvoice

Spec == Init /\ [][Next]_vars

(* ------------------------------ properties ----------------------------- *)
\* the files the load loop has been through
Loaded == 1..(i - 1)

\* no other file of the batch carries the name of file k
UniqueName(k) == \A j \in DOMAIN files : j # k => files[j].name # files[k].name

\* the record types the run keeps: every type on upload, the selected
\* types on the links tab
Kept(file_type) ==
    \/ tab = "upload"
    \/ file_type = "packet" /\ "Packet Data" \in file_type_filter
    \/ file_type = "invoice" /\ "Invoice Data" \in file_type_filter

RECURSIVE PlainSum(_)
\* the sum of a sequence of numbers, none of them missing
PlainSum(cells) ==
    IF cells = <<>> THEN Num(0) ELSE RAdd(Head(cells), PlainSum(Tail(cells)))

\* the cells of a sequence that are not missing, in order
NonNull(cells) ==
    LET idx == SelectIdx(cells, LAMBDA x : ~IsNaN(x), 1)
    IN  [k \in DOMAIN idx |-> cells[idx[k]]]

\* the month columns of a packet table: its numeric columns other than the
\* identity columns and the derived Total and Average
MonthColumns(df) ==
    DropCols(NumericCols(df), Range(packet_columns) \cup {"Total", "Average"})

MonthValues(df, r) == NonNull(RowCells(df.rows[r], MonthColumns(df)))

\* the sheet behind a stored table carried no Total or Average column
FreshSheet(name) ==
    \A k \in DOMAIN files :
        files[k].name = name =>
            ~HasColumn(files[k].df, "Total") /\ ~HasColumn(files[k].df, "Average")

\* Total and Average of row r are the sum and the mean of its month values
RowTotalsRight(df, r) ==
    /\ df.rows[r]["Total"] = PlainSum(MonthValues(df, r))
    /\ df.rows[r]["Average"] =
          IF MonthValues(df, r) = <<>> THEN NaN
          ELSE RDivInt(PlainSum(MonthValues(df, r)), Len(MonthValues(df, r)))

\* C1: every row of a normalized packet table has Total = the sum of its
\* non-null month values (a numeric Account is no month value) and Average =
\* Total / the count of its non-null month values; the statistics report
\* that count as the row's active months.
C1_TotalIsSumOfMonths ==
    /\ \A e \in Range(dataframes.packet) :
          FreshSheet(e[1]) => \A r \in DOMAIN e[2].rows : RowTotalsRight(e[2], r)
    /\ \A v \in Range(packet_view) :
          FreshSheet(v.selected_file) =>
              LET df == DictGet(dataframes.packet, v.selected_file)
              IN  \A r \in DOMAIN df.rows :
                      v.stats.active_months[r] = Len(MonthValues(df, r))

\* a sheet whose columns hold both required sets
MatchesBoth(df) ==
    /\ \A k \in DOMAIN packet_columns : HasColumn(df, packet_columns[k])
    /\ \A k \in DOMAIN invoice_columns : HasColumn(df, invoice_columns[k])

\* C2 as stated: a sheet with both required column sets is classified Packet,
\* so its table is stored among the packet tables.
C2_BothIsPacket ==
    \A k \in Loaded :
        files[k].readable /\ MatchesBoth(files[k].df) /\ Kept("packet")
            => DictHas(dataframes.packet, files[k].name)

\* C2 amended: a sheet with both required column sets is classified Invoice
\* (the invoice columns are tested first): its table is stored among the
\* invoice tables and not among the packet tables.
C2_BothIsInvoice ==
    \A k \in Loaded :
        files[k].readable /\ MatchesBoth(files[k].df) /\ Kept("invoice")
            => /\ DictHas(dataframes.invoice, files[k].name)
               /\ ~DictHas(dataframes.packet, files[k].name)
               /\ detect_file_type(files[k].df) = "invoice"

C2_Witness ==
    \E k \in Loaded :
        /\ files[k].readable /\ MatchesBoth(files[k].df)
        /\ DictHas(dataframes.invoice, files[k].name)

\* the value a string over digits, '.' and '-' writes as a decimal numeral,
\* digit by digit: NaN unless it is an optional '-', then digits with at
\* most one '.' among them and at least one digit
DecimalReading(chars) ==
    LET neg  == chars # <<>> /\ chars[1] = "-"
        from == IF neg THEN 2 ELSE 1
        body == from..Len(chars)
        dots == {k \in body : chars[k] = "."}
        dot  == IF dots = {} THEN Len(chars) + 1 ELSE CHOOSE k \in dots : TRUE
        places == Len(chars) + 1 - dot
        scaled[k \in (from - 1)..Len(chars)] ==
            IF k = from - 1 THEN 0
            ELSE IF k = dot THEN scaled[k - 1]
            ELSE scaled[k - 1] + DigitVal(chars[k])
                     * Pow10(IF k < dot THEN Len(chars) - k - (IF dots = {} THEN 0 ELSE 1)
                             ELSE Len(chars) - k)
        wellFormed == /\ Cardinality(dots) <= 1
                      /\ \A k \in body \ dots : IsDigit(chars[k])
                      /\ body \ dots # {}
    IN  IF ~wellFormed THEN NaN
        ELSE Norm((IF neg THEN -1 ELSE 1) * scaled[Len(chars)],
                  Pow10(IF dots = {} THEN 0 ELSE places - 1))

\* the characters of a raw Amount cell that are digits, '.' or '-', in order
KeptChars(chars) ==
    LET keep == {k \in DOMAIN chars : IsDigit(chars[k]) \/ chars[k] \in {".", "-"}}
        pos[k \in 0..Len(chars)] ==
            IF k = 0 THEN <<>>
            ELSE IF k \in keep THEN Append(pos[k - 1], chars[k]) ELSE pos[k - 1]
    IN  pos[Len(chars)]

\* what the claim asks of one raw Amount cell: a number stays itself, a
\* missing cell stays missing, text is stripped and read as a decimal
ExpectedAmount(cell) ==
    IF cell.s = <<>> THEN cell ELSE DecimalReading(KeptChars(cell.s))

\* C3: every invoice sheet is normalized without raising, and each stored
\* Amount is its own raw cell with every character other than digits, '.' and
\* '-' removed, read as a decimal number, or null when the remainder is no
\* number; "Rs1,200.50" gives 1200.50 and "N/A" gives null, whatever the
\* other rows hold.
C3_AmountParsedPerCell ==
    /\ \A k \in Loaded :
          /\ files[k].readable /\ UniqueName(k)
          /\ detect_file_type(files[k].df) = "invoice" /\ Kept("invoice")
          => /\ DictHas(dataframes.invoice, files[k].name)
             /\ LET df == DictGet(dataframes.invoice, files[k].name)
                IN  /\ DOMAIN df.rows = DOMAIN files[k].df.rows
                    /\ \A r \in DOMAIN df.rows :
                          df.rows[r]["Amount"] = ExpectedAmount(files[k].df.rows[r]["Amount"])
    /\ ExpectedAmount(RupeeAmount) = Norm(120050, 100)
    /\ ExpectedAmount(NotAvailable) = NaN

\* a stored two-row table whose rows were "N/A"-like and a parsed number
C3_Witness ==
    \E k \in Loaded :
        /\ files[k].readable /\ UniqueName(k)
        /\ DictHas(dataframes.invoice, files[k].name)
        /\ LET df == DictGet(dataframes.invoice, files[k].name)
           IN  \E r1, r2 \in DOMAIN df.rows :
                  /\ files[k].df.rows[r1]["Amount"] = NotAvailable
                  /\ IsNaN(df.rows[r1]["Amount"])
                  /\ files[k].df.rows[r2]["Amount"] = RupeeAmount
                  /\ df.rows[r2]["Amount"] = Norm(2401, 2)

\* C4: the invoice statistics leave rows with a null Amount out of
\* total_amount and out of the denominator of average_invoice, and
\* total_invoices counts every row.
C4_NullAmountsExcluded ==
    \A v \in Range(invoice_view) :
        LET df == DictGet(dataframes.invoice, v.selected_file)
            amounts == NonNull(ColCells(df, "Amount"))
        IN  /\ v.stats.total_amount = PlainSum(amounts)
            /\ v.stats.average_invoice =
                  IF amounts = <<>> THEN NaN
                  ELSE RDivInt(PlainSum(amounts), Len(amounts))
            /\ v.stats.total_invoices = Len(df.rows)

\* statistics of a table with a null and a non-null Amount
C4_Witness ==
    \E v \in Range(invoice_view) :
        LET amounts == ColCells(DictGet(dataframes.invoice, v.selected_file), "Amount")
        IN  /\ \E r \in DOMAIN amounts : IsNaN(amounts[r])
            /\ \E r \in DOMAIN amounts : ~IsNaN(amounts[r]) /\ amounts[r].n # 0
            /\ v.stats.total_invoices = Len(amounts)

\* the table analyze_packet_data displayed
ViewedPacket(v) == DictGet(dataframes.packet, v.selected_file)

\* the per-account totals the bucketing starts from: the distinct accounts
\* of the table and, for each, the sum of its rows' Total
AccountsOf(df) == {df.rows[r]["Account"] : r \in DOMAIN df.rows}

AccountTotal(df, account) ==
    PlainSum(NonNull(GroupCells(df, "Account", "Total", account)))

GrandTotal(df) == PlainSum(NonNull(ColCells(df, "Total")))

\* C5: the totals of the returned account groups, Others included, add up to
\* the grand total of the Total column.
C5_GroupTotalsSumToGrandTotal ==
    \A v \in Range(packet_view) :
        PlainSum([j \in DOMAIN v.charts.account_pie |-> v.charts.account_pie[j][2]])
            = GrandTotal(ViewedPacket(v))

\* a group's share of a non-zero grand total is at least 2%
AtLeast2Percent(total, grand) ==
    IF grand.n > 0
    THEN 100 * total.n * grand.d >= 2 * grand.n * total.d
    ELSE 100 * total.n * grand.d <= 2 * grand.n * total.d

\* C6: with a non-zero grand total, an account is returned under its own key
\* with its own total exactly when its share is at least 2%; the accounts
\* below 2% are returned as one Others group holding their sum (no group
\* when that sum is zero), and with no account below 2% the returned groups
\* are the input groups.
C6_TwoPercentBucketing ==
    \A v \in Range(packet_view) :
        LET df    == ViewedPacket(v)
            pie   == Range(v.charts.account_pie)
            grand == GrandTotal(df)
            minor == {a \in AccountsOf(df) : ~AtLeast2Percent(AccountTotal(df, a), grand)}
            minorSum == PlainSum([j \in 1..Cardinality(minor) |->
                            AccountTotal(df, SortedKeys(minor)[j])])
        IN  grand.n # 0 =>
              /\ \A a \in AccountsOf(df) :
                    a \notin minor <=> <<a, AccountTotal(df, a)>> \in pie
              /\ \A a \in minor : \A e \in pie : e[1] # a
              /\ minorSum.n # 0 => <<Others, minorSum>> \in pie
              /\ minor = {} => pie = {<<a, AccountTotal(df, a)>> : a \in AccountsOf(df)}

RECURSIVE AllAmounts(_)
\* the Amount cells of all tables of a dict, table after table
AllAmounts(dct) ==
    IF dct = <<>> THEN <<>>
    ELSE ColCells(Head(dct)[2], "Amount") \o AllAmounts(Tail(dct))

\* the mean of the non-missing cells, NaN when there is none
PlainMean(cells) ==
    IF NonNull(cells) = <<>> THEN NaN
    ELSE RDivInt(PlainSum(NonNull(cells)), Len(NonNull(cells)))

WithoutColumns(df, cols) ==
    [columns |-> DropCols(df.columns, cols),
     dtypes  |-> [c \in DOMAIN df.dtypes \ cols |-> df.dtypes[c]],
     rows    |-> [r \in DOMAIN df.rows |->
                     [c \in DOMAIN df.dtypes \ cols |-> df.rows[r][c]]]]

\* C8: a packet sheet that already carries Total and Average is normalized
\* to the Total and Average of the same sheet without those two columns.
C8_RenormalizingKeepsTotals ==
    \A k \in Loaded :
        /\ files[k].readable /\ UniqueName(k)
        /\ HasColumn(files[k].df, "Total") /\ HasColumn(files[k].df, "Average")
        /\ DictHas(dataframes.packet, files[k].name)
        => LET again == DictGet(dataframes.packet, files[k].name)
               fresh == process_packet_dataframe(
                            WithoutColumns(files[k].df, {"Total", "Average"})).df
           IN  \A r \in DOMAIN again.rows :
                  /\ again.rows[r]["Total"] = fresh.rows[r]["Total"]
                  /\ again.rows[r]["Average"] = fresh.rows[r]["Average"]

RECURSIVE FirstAppearance(_)
\* the distinct non-missing cells of a sequence in order of first appearance
FirstAppearance(cells) ==
    IF cells = <<>> THEN <<>>
    ELSE LET before == FirstAppearance(SubSeq(cells, 1, Len(cells) - 1))
             last == cells[Len(cells)]
         IN  IF IsNaN(last) \/ last \in Range(before) THEN before
             ELSE Append(before, last)

KeysOf(rollup) == [j \in DOMAIN rollup |-> rollup[j][1]]

\* the table analyze_invoice_data displayed, Month added
ViewedInvoice(v) == DictGet(dataframes.invoice, v.selected_file)

\* C9 as stated: the group keys of a rollup come in order of first appearance
\* in the table's rows.
C9_FirstAppearanceOrder ==
    /\ \A v \in Range(packet_view) :
          KeysOf(v.charts.state_pie) = FirstAppearance(ColCells(ViewedPacket(v), "State"))
    /\ \A v \in Range(invoice_view) :
          /\ KeysOf(v.customer_totals) =
                FirstAppearance(ColCells(ViewedInvoice(v), "Customer Name"))
          /\ ~v.raised => KeysOf(v.monthly_totals) =
                FirstAppearance(ColCells(ViewedInvoice(v), "Month"))

\* the keys are exactly the non-missing cells, each once, ascending
Ascending(keys, cells) ==
    /\ Range(keys) = Range(cells) \ {NaN}
    /\ \A j, k \in DOMAIN keys : j < k => CellLess(keys[j], keys[k])

\* C9 amended: the per-state, per-customer and per-month rollups, and the
\* per-account groups kept under their own key, come in ascending key order.
C9_AscendingKeyOrder ==
    /\ \A v \in Range(packet_view) :
          /\ Ascending(KeysOf(v.charts.state_pie), ColCells(ViewedPacket(v), "State"))
          /\ LET keys == KeysOf(v.charts.account_pie)
             IN  \A j, k \in DOMAIN keys :
                    j < k /\ keys[k] # Others => CellLess(keys[j], keys[k])
    /\ \A v \in Range(invoice_view) :
          /\ Ascending(KeysOf(v.customer_totals),
                       ColCells(ViewedInvoice(v), "Customer Name"))
          /\ ~v.raised => Ascending(KeysOf(v.monthly_totals),
                                    ColCells(ViewedInvoice(v), "Month"))

\* rollups of tables whose keys first appear in descending order
C9_Witness ==
    /\ \E v \in Range(invoice_view) :
          /\ ~v.raised
          /\ Len(v.customer_totals) > 1 /\ Len(v.monthly_totals) > 1
          /\ KeysOf(v.customer_totals) #
                FirstAppearance(ColCells(ViewedInvoice(v), "Customer Name"))
          /\ KeysOf(v.monthly_totals) #
                FirstAppearance(ColCells(ViewedInvoice(v), "Month"))
    /\ \E v \in Range(packet_view) :
          /\ KeysOf(v.charts.state_pie) # FirstAppearance(ColCells(ViewedPacket(v), "State"))
          /\ Len(v.charts.account_pie) > 1

\* the table a sheet of the given record type is normalized to
Normalized(df, file_type) ==
    IF file_type = "packet" THEN process_packet_dataframe(df)
    ELSE process_invoice_dataframe(df)

\* the file does not fail: it can be read, its sheet is of the given record
\* type and has the data the normalizer needs
Good(file, file_type) ==
    /\ file.readable
    /\ detect_file_type(file.df) = file_type
    /\ Normalized(file.df, file_type).ok

RECURSIVE StoreAll(_, _, _)
\* the dict a batch of non-failing files of one record type leaves
StoreAll(dct, batch, file_type) ==
    IF batch = <<>> THEN dct
    ELSE StoreAll(DictSet(dct, Head(batch).name,
                          Normalized(Head(batch).df, file_type).df),
                  Tail(batch), file_type)

\* the non-failing files of the given record type among those gone through
GoodLoaded(file_type) ==
    LET idx == SelectIdx(SubSeq(files, 1, i - 1), LAMBDA f : Good(f, file_type), 1)
    IN  [k \in DOMAIN idx |-> files[idx[k]]]

\* C10: load_and_clean_data goes through every file of the batch, and the
\* tables it stores are those a batch of the non-failing files alone leaves:
\* each under its record type and file name, normalized.
C10_FailingFilesDoNotBlock ==
    tab = "upload" =>
        /\ pc # "load" => i = Len(files) + 1
        /\ invoice_view = <<>> =>
              \A file_type \in {"packet", "invoice"} :
                  dataframes[file_type] = StoreAll(<<>>, GoodLoaded(file_type), file_type)

\* a finished load in which a good file came after failing ones and was
\* stored
C10_Witness ==
    /\ tab = "upload" /\ pc # "load" /\ invoice_view = <<>>
    /\ \E j, k \in DOMAIN files :
          /\ j < k
          /\ ~files[j].readable
          /\ Good(files[k], "invoice")
          /\ DictHas(dataframes.invoice, files[k].name)
    /\ \E j \in DOMAIN files :
          /\ files[j].readable
          /\ ~Good(files[j], "packet") /\ ~Good(files[j], "invoice")

\* the combined packet step has run: it showed its metrics or its message
CombinedPacketRan ==
    \/ \E c \in Range(combined_view) : c.kind = "packet"
    \/ \E r \in Range(reports) : r.text = "Error in combined packet analysis"

\* the combined step comes first and the run is over only after the
\* individual packet analysis and, when the batch has invoice tables, the
\* invoice analysis
CombinedPacketOrder ==
    tab = "upload" /\ pc # "load" /\ Len(dataframes.packet) > 1 =>
        /\ pc = "combined_packet" \/ CombinedPacketRan
        /\ pc = "combined_packet" => packet_view = <<>> /\ invoice_view = <<>>
        /\ pc = "done" =>
              /\ packet_view # <<>>
              /\ dataframes.invoice # <<>> => invoice_view # <<>>

\* the step out of the combined packet step, failed or not, enters the
\* individual packet analysis, and the step out of that one enters the
\* invoice analysis when the batch has invoice tables
CombinedPacketGoesOn ==
    tab = "upload" =>
        /\ pc = "combined_packet" =>
              pc' = "packet_analysis" /\ dataframes'.packet # <<>>
        /\ pc = "packet_analysis" /\ dataframes.invoice # <<>> =>
              pc' = "invoice_analysis" /\ packet_view' # <<>>
        /\ pc = "invoice_analysis" =>
              pc' = "done" /\ invoice_view' # <<>>

Unrecognized(k) == files[k].readable /\ detect_file_type(files[k].df) = "None"

\* the message each path shows for an unrecognized sheet
UnrecognizedText ==
    IF tab = "upload" THEN "Unrecognized file format for"
    ELSE "Unrecognized file format in the linked file"

UnrecognizedReports == {j \in DOMAIN reports : reports[j].text = UnrecognizedText}

\* C12: of the files or links gone through, those whose sheet is neither a
\* packet nor an invoice sheet are not stored (every stored table is a
\* recognized one, under the name of a recognized source) and each of them
\* has its own error report: there are as many "Unrecognized file format"
\* reports as such sources, and on upload each names its file.
C12_UnrecognizedSkippedAndReported ==
    /\ \A file_type \in {"packet", "invoice"} :
          \A e \in Range(dataframes[file_type]) :
              /\ detect_file_type(e[2]) # "None"
              /\ \E k \in Loaded : ~Unrecognized(k) /\ files[k].name = e[1]
    /\ Cardinality(UnrecognizedReports) = Cardinality({k \in Loaded : Unrecognized(k)})
    /\ \A k \in Loaded :
          Unrecognized(k) =>
              \E j \in UnrecognizedReports :
                  /\ reports[j].level = "error"
                  /\ tab = "upload" => reports[j].about = files[k].name

\* an upload batch gone through in which an unrecognized file shares its
\* name with a stored one and another unrecognized file has a name of its own
C12_Witness ==
    /\ tab = "upload" /\ pc # "load"
    /\ \E j, k, l \in DOMAIN files :
          /\ Unrecognized(j) /\ Unrecognized(l)
          /\ files[j].name # files[l].name
          /\ files[k].name = files[j].name
          /\ DictHas(dataframes.packet, files[k].name)
          /\ ~DictHas(dataframes.packet, files[l].name)
          /\ ~DictHas(dataframes.invoice, files[l].name)

\* C13: once process_packet_dataframe, process_invoice_dataframe or
\* create_invoice_visualizations has returned, the table object it was
\* handed has the columns and the cell values it had before the call.
C13_InputTableUnchanged ==
    \A c \in Range(last_call) :
        /\ c.after.columns = c.before.columns
        /\ c.after.rows = c.before.rows

\* C14: a rollup by month is computed only over tables that carry the Month
\* column: when main is about to call create_combined_invoice_dashboard,
\* whose group-by on (Source, Month) runs over all the invoice tables, each
\* of them has had Month derived, and the monthly totals that
\* analyze_invoice_data shows come from a table with Month.
C14_MonthDerivedBeforeRollup ==
    /\ pc = "combined_invoice" =>
          \A k \in DOMAIN dataframes.invoice :
              HasColumn(dataframes.invoice[k][2], "Month")
    /\ \A v \in Range(invoice_view) :
          v.monthly_totals # <<>> => HasColumn(ViewedInvoice(v), "Month")

\* the Add Link success message is shown only with the link in stored_links
AddedLinkIsStored ==
    \A r \in Range(sidebar) :
        r.level = "success" /\ r.text = "Added link" =>
            /\ DictHas(stored_links, link_name)
            /\ DictGet(stored_links, link_name) = new_link

\* a click that ends in an error message leaves stored_links as it was
FailedClickKeepsLinks ==
    clicks' = clicks + 1 /\ (\E r \in Range(sidebar') : r.level = "error") =>
        stored_links' = stored_links

\* C15: whenever Add Link reports "Added link: <name>", stored_links maps
\* <name> to the submitted URL; and whenever an add or a refresh fails (a
\* response other than 200, or an exception), stored_links is after the
\* click what it was before.
C15_SuccessMeansStored ==
    []AddedLinkIsStored /\ [][FailedClickKeepsLinks]_vars

====
